---- MODULE Spec2Model ----
(***************************************************************************)
(* Model of src/changelog.js: the release-note generator.                  *)
(*                                                                         *)
(* generateReleaseNote lists the active projects, fetches the tickets of   *)
(* every project/column combination and of the no-project columns,         *)
(* summarises them in batches of BATCH_SIZE through the completion API     *)
(* (with retry and exponential backoff) and formats the release note.      *)
(*                                                                         *)
(* The program is one async control flow; every action below is one        *)
(* continuation of it: the code that runs from the resolution of one       *)
(* awaited promise up to the next await.                                   *)
(***************************************************************************)
EXTENDS Integers, Sequences, FiniteSets, TLC

(***************************************************************************)
(* Program constants.                                                      *)
(***************************************************************************)
BATCH_SIZE == 15

maxRetries == 5

Columns == <<"Done", "Staging", "In Review", "In Progress", "To Do">>

\* The codes the catch block of summarise retries on.
RetryCodes == {"insufficient_quota", "rate_limit"}

NoResponseMessage == "Failed to get a response from OpenAI API"

(***************************************************************************)
(* Bounds of the model.                                                    *)
(***************************************************************************)
\* Active projects the tracker lists: 0..MaxProjects.
MaxProjects == 1

\* Tickets one successful issue query returns: 0, MaxPerFetch - 1 or MaxPerFetch.
MaxPerFetch == 4

\* Faults of the external services in one run: failed tracker queries,
\* completions that are not the well-formed array of the batch, and batches
\* whose completion call meets retryable errors (up to maxRetries of them).
MaxFaults == 1

\* How far the completion of a ticket's metadata lookups may overtake the
\* first ticket of the chunk that is still unresolved.
LookupWindow == 1

\* Length of the ticket sequences formatReleaseNote is applied to on its own.
MaxNoteLen == 3

(***************************************************************************)
(* Values.                                                                 *)
(***************************************************************************)
\* ticket.project resolving to null
NoProject == "<null>"

\* error.code of an error object that has no code property
NoCode == "<undefined>"

\* A slot of the Promise.all result that is not settled yet
Pending == [identifier |-> "<pending>", project |-> "<pending>"]

NotProduced == [produced |-> FALSE, text |-> "", blocks |-> <<>>]

NoError == [kind |-> "none", code |-> NoCode, message |-> ""]

ProjectName(k) == "P" \o ToString(k)

TrackerProjects(n) == [k \in 1..n |-> ProjectName(k)]

Trackers ==
    { [projects |-> TrackerProjects(n), perFetch |-> m] :
        n \in 0..MaxProjects,
        m \in {0} \cup { x \in {MaxPerFetch - 1, MaxPerFetch} : x > 0 } }

\* The error codes the completion API fails with in the model: the two
\* retried ones, another classified error and an error without a code.
ErrorCodes == RetryCodes \cup {"invalid_api_key", NoCode}

ResponseKinds == {"array", "object", "truncated", "empty", "foreign"}

VARIABLES
    pc,                 \* the await the control flow is suspended at
    tracker,            \* the tracker's content (unchanged during a run)
    projects,           \* generateReleaseNote: projects
    fetchIdx,           \* position in the sequence of issue queries
    colTickets,         \* results of the current project's column queries
    allTickets,         \* generateReleaseNote: allTickets
    i,                  \* summariseTickets: loop offset i
    ticketBatch,        \* the slots of Promise.all(batch)
    attempt,            \* summarise: attempt
    returnedContent,    \* summarise: returnedContent
    summarisedTickets,  \* summariseTickets: summarisedTickets
    releaseNote,        \* the release note printed at the end
    error,              \* the error the run was rejected with
    apiCalls,           \* history: completion-API invocations of the run
    callsThisBatch,     \* history: completion-API invocations of this summarise call
    retried,            \* history: errors answered by a backoff wait
    inFlight,           \* history: completion-API calls awaiting their response
    waits,              \* history: backoff waits (ms) of this summarise call
    lastError,          \* history: the error the last completion call failed with
    fetchLog,           \* history: the tracker issue queries made
    handed,             \* history: the record lists passed to summarise
    responseKinds,      \* history: the kind of completion each batch ended with
    listing,            \* history: outcome of the project listing
    limited             \* history: summarise calls that met a retryable error

vars == <<pc, tracker, projects, fetchIdx, colTickets, allTickets, i, ticketBatch,
          attempt, returnedContent, summarisedTickets, releaseNote, error,
          apiCalls, callsThisBatch, retried, inFlight, waits, lastError,
          fetchLog, handed, responseKinds, listing, limited>>

fetchVars == <<projects, fetchIdx, colTickets, allTickets, fetchLog, listing>>

flowVars == <<pc, i, ticketBatch, summarisedTickets, releaseNote, error>>

callVars == <<attempt, returnedContent, apiCalls, callsThisBatch, retried,
              inFlight, waits, lastError, limited>>

(***************************************************************************)
(* Helpers on sequences.                                                   *)
(***************************************************************************)
Min(a, b) == IF a < b THEN a ELSE b

RECURSIVE Flatten(_)
Flatten(ss) == IF ss = <<>> THEN <<>> ELSE Head(ss) \o Flatten(Tail(ss))

RECURSIVE Pow2(_)
Pow2(n) == IF n = 0 THEN 1 ELSE 2 * Pow2(n - 1)

Range(s) == { s[k] : k \in DOMAIN s }

(***************************************************************************)
(* The tracker (external): what linearClient.issues returns.  Tickets are  *)
(* a function of the project and the column queried, so the tracker's      *)
(* content does not depend on the queries made before.                     *)
(***************************************************************************)
ProjectIndex(tr, project) ==
    IF project = NoProject THEN Len(tr.projects) + 1
    ELSE CHOOSE k \in 1..Len(tr.projects) : tr.projects[k] = project

ColumnIndex(column) == CHOOSE c \in 1..Len(Columns) : Columns[c] = column

TicketNumber(tr, project, column, j) ==
    ((ProjectIndex(tr, project) - 1) * Len(Columns) + (ColumnIndex(column) - 1))
        * tr.perFetch + j

TrackerIssues(tr, project, column) ==
    [j \in 1..tr.perFetch |->
        [identifier |-> "E-" \o ToString(TicketNumber(tr, project, column, j)),
         project    |-> project,
         bug        |-> (j % 2 = 1)]]

(***************************************************************************)
(* generateReleaseNote: the order of the issue queries.                    *)
(***************************************************************************)
FetchCount(projs) == Len(Columns) * (Len(projs) + 1)

\* Mutant of FetchPlan: the no-project queries come before the projects'.
FetchPlanUnprojectedFirst(projs) ==
    [k \in 1..FetchCount(projs) |->
        [project |-> IF k <= Len(Columns) THEN NoProject
                     ELSE projs[((k - 1) \div Len(Columns))],
         column  |-> Columns[((k - 1) % Len(Columns)) + 1]]]

FetchPlan(projs) ==
    [k \in 1..FetchCount(projs) |->
        [project |-> IF ((k - 1) \div Len(Columns)) + 1 <= Len(projs)
                     THEN projs[((k - 1) \div Len(Columns)) + 1]
                     ELSE NoProject,
         column  |-> Columns[((k - 1) % Len(Columns)) + 1]]]

FailedQueries ==
    Cardinality({k \in DOMAIN fetchLog : ~fetchLog[k].ok})
        + (IF listing = "failed" THEN 1 ELSE 0)

OddResponses == Cardinality({k \in DOMAIN responseKinds : responseKinds[k] # "array"})

Faults == FailedQueries + OddResponses + limited

(***************************************************************************)
(* summariseTickets: chunking and record building.                         *)
(***************************************************************************)
\* tickets.slice(off, off + BATCH_SIZE)
Chunk(tickets, off) ==
    SubSeq(tickets, off + 1, Min(off + BATCH_SIZE, Len(tickets)))

\* Mutant of NextOffset: the loop advances by one ticket, so every ticket
\* gets a completion call of its own.
NextOffsetPerTicket(off) == off + 1

\* the loop's i += BATCH_SIZE
NextOffset(off) == off + BATCH_SIZE

\* the template string the map callback returns (identifier and Project line)
RecordOf(ticket) ==
    [identifier |-> ticket.identifier,
     project    |-> IF ticket.project # NoProject THEN ticket.project
                    ELSE IF ticket.bug THEN "Bug" ELSE "Enhancement"]

\* Mutant of PromiseAllSlot: the records are collected in the order the
\* callbacks complete (a push from inside the callback).
CompletionOrderSlot(k, slots) ==
    CHOOSE n \in DOMAIN slots :
        slots[n] = Pending /\ \A m \in 1..(n - 1) : slots[m] # Pending

\* Promise.all puts the value of the k-th promise into slot k, whatever the
\* order the promises settle in.
PromiseAllSlot(k, slots) == k

(***************************************************************************)
(* The completion API (external): the texts it may answer a batch with.    *)
(* A text is a sequence of JSON tokens.                                    *)
(***************************************************************************)
LBracket == [tok |-> "["]
RBracket == [tok |-> "]"]
Comma == [tok |-> ","]
ObjTok(o) == [tok |-> "obj", val |-> o]

\* the summary object the prompt asks for; batch is the provenance of the
\* object (the batch whose completion produced it), not a JSON field
SummaryOf(record, b) ==
    [identifier |-> record.identifier,
     url        |-> "https://x/" \o record.identifier,
     summary    |-> "Ship " \o record.identifier,
     category   |-> "Core",
     project    |-> record.project,
     batch      |-> b]

ArrayText(objs) ==
    <<LBracket>>
    \o [p \in 1..(2 * Len(objs) - 1) |->
            IF p % 2 = 1 THEN ObjTok(objs[(p + 1) \div 2]) ELSE Comma]
    \o <<RBracket>>

ForeignRecord == [identifier |-> "E-0", project |-> "Enhancement"]

Completion(kind, records, b) ==
    LET objs == [k \in 1..Len(records) |-> SummaryOf(records[k], b)]
    IN  CASE kind = "array"     -> ArrayText(objs)
          [] kind = "object"    -> <<ObjTok(objs[1])>>
          [] kind = "truncated" -> SubSeq(ArrayText(objs), 1, 2 * Len(objs))
          [] kind = "foreign"   -> ArrayText(<<SummaryOf(ForeignRecord, b)>>)
          [] OTHER              -> <<>>

(***************************************************************************)
(* summarise: response handling.                                           *)
(***************************************************************************)
\* JSON.parse on a token text: an object, or an array of objects
JSONParse(text) ==
    LET n == Len(text)
        inner == SubSeq(text, 2, n - 1)
        wellFormed ==
            /\ Len(inner) % 2 = 1
            /\ \A p \in 1..Len(inner) :
                  inner[p].tok = (IF p % 2 = 1 THEN "obj" ELSE ",")
    IN  IF n = 1 /\ text[1].tok = "obj"
        THEN [ok |-> TRUE, isArray |-> FALSE, value |-> text[1].val]
        ELSE IF n >= 2 /\ text[1].tok = "[" /\ text[n].tok = "]"
                /\ (n = 2 \/ wellFormed)
        THEN [ok |-> TRUE, isArray |-> TRUE,
              value |-> [k \in 1..((n - 1) \div 2) |-> inner[2 * k - 1].val]]
        ELSE [ok |-> FALSE, isArray |-> FALSE, value |-> <<>>]

isRateLimitError(err) == err.code # NoCode

\* Mutant of ShouldRetry: every error that carries a code is retried.
ShouldRetryAnyCode(err) == isRateLimitError(err)

\* Mutant of ShouldRetry: insufficient_quota is not retried.
ShouldRetryRateLimitOnly(err) == isRateLimitError(err) /\ err.code = "rate_limit"

\* the condition of the catch block that selects the backoff branch
ShouldRetry(err) == isRateLimitError(err) /\ err.code \in RetryCodes

\* Mutant of WaitTime: linear instead of exponential backoff.
WaitTimeLinear(att) == (att + 1) * 1000

\* Math.pow(2, attempt) * 1000
WaitTime(att) == Pow2(att) * 1000

\* Mutant of SummariseTail: the JSON.parse error is not caught.
SummariseTailStrict(content) ==
    IF content = <<>>
    THEN [throws |-> TRUE, value |-> <<>>]
    ELSE LET parsed == JSONParse(content)
         IN  IF ~parsed.ok THEN [throws |-> TRUE, value |-> <<>>]
             ELSE IF ~parsed.isArray
                  THEN [throws |-> FALSE, value |-> <<parsed.value>>]
                  ELSE [throws |-> FALSE, value |-> parsed.value]

\* Mutant of SummariseTail: empty content is not checked for; parsing it
\* fails and the empty sequence is returned.
SummariseTailEmptyOk(content) ==
    LET parsed == JSONParse(content)
    IN  IF content = <<>> \/ ~parsed.ok THEN [throws |-> FALSE, value |-> <<>>]
        ELSE IF ~parsed.isArray
             THEN [throws |-> FALSE, value |-> <<parsed.value>>]
             ELSE [throws |-> FALSE, value |-> parsed.value]

\* Mutant of SummariseTail: a parsed value that is no array is dropped.
SummariseTailArraysOnly(content) ==
    IF content = <<>>
    THEN [throws |-> TRUE, value |-> <<>>]
    ELSE LET parsed == JSONParse(content)
         IN  IF ~parsed.ok \/ ~parsed.isArray
             THEN [throws |-> FALSE, value |-> <<>>]
             ELSE [throws |-> FALSE, value |-> parsed.value]

\* the code after the retry loop: what summarise returns or throws
SummariseTail(content) ==
    IF content = <<>>
    THEN [throws |-> TRUE, value |-> <<>>]
    ELSE LET parsed == JSONParse(content)
         IN  IF ~parsed.ok THEN [throws |-> FALSE, value |-> <<>>]
             ELSE IF ~parsed.isArray
                  THEN [throws |-> FALSE, value |-> <<parsed.value>>]
                  ELSE [throws |-> FALSE, value |-> parsed.value]

(***************************************************************************)
(* formatReleaseNote.                                                      *)
(***************************************************************************)
\* The property names the model uses that are canonical array indices:
\* Object.keys lists those first, in ascending numeric order.
ArrayIndex(name) ==
    CASE name = "0" -> 0 [] name = "7" -> 7 [] name = "2024" -> 2024
      [] OTHER -> -1

\* Property names every object inherits from Object.prototype: for these
\* group[projectName] is truthy on the empty accumulator of the reduce, no
\* array is created, and group[projectName].push is not a function.
InheritedKeys ==
    {"constructor", "__proto__", "toString", "valueOf", "hasOwnProperty",
     "isPrototypeOf", "propertyIsEnumerable", "toLocaleString"}

PushError ==
    [kind |-> "error", code |-> NoCode,
     message |-> "group[projectName].push is not a function"]

\* the reduce throws a TypeError
FormatThrows(tickets) ==
    \E k \in DOMAIN tickets : tickets[k].project \in InheritedKeys

RECURSIVE FirstSeen(_, _)
FirstSeen(names, seen) ==
    IF names = <<>> THEN <<>>
    ELSE IF Head(names) \in seen THEN FirstSeen(Tail(names), seen)
    ELSE <<Head(names)>> \o FirstSeen(Tail(names), seen \cup {Head(names)})

RECURSIVE SortByIndex(_)
SortByIndex(names) ==
    IF names = <<>> THEN <<>>
    ELSE LET m == CHOOSE x \in Range(names) :
                    \A y \in Range(names) : ArrayIndex(x) <= ArrayIndex(y)
         IN  <<m>> \o SortByIndex(SelectSeq(names, LAMBDA x : x # m))

\* Object.keys(groupedTickets)
ObjectKeys(inserted) ==
    SortByIndex(SelectSeq(inserted, LAMBDA x : ArrayIndex(x) >= 0))
    \o SelectSeq(inserted, LAMBDA x : ArrayIndex(x) < 0)

Reverse(seq) == [k \in DOMAIN seq |-> seq[Len(seq) + 1 - k]]

\* Mutant of GroupTickets: the reduce prepends (unshift) instead of appending.
GroupTicketsReversed(tickets, name) ==
    Reverse(SelectSeq(tickets, LAMBDA t : t.project = name))

\* the reduce: groupedTickets[name]
GroupTickets(tickets, name) == SelectSeq(tickets, LAMBDA t : t.project = name)

\* Mutant of NoteBlocks: the generic pass only, no Enhancement pass.
NoteBlocksGenericOnly(tickets) ==
    LET keys == ObjectKeys(FirstSeen([k \in DOMAIN tickets |-> tickets[k].project], {}))
    IN  [k \in DOMAIN keys |->
            [header |-> keys[k], tickets |-> GroupTickets(tickets, keys[k])]]

\* the blocks of the note: the generic pass, then the Enhancement pass
NoteBlocks(tickets) ==
    LET keys == ObjectKeys(FirstSeen([k \in DOMAIN tickets |-> tickets[k].project], {}))
    IN  [k \in DOMAIN keys |->
            [header |-> keys[k], tickets |-> GroupTickets(tickets, keys[k])]]
        \o (IF \E k \in DOMAIN keys : keys[k] = "Enhancement"
            THEN <<[header |-> "Enhancements",
                    tickets |-> GroupTickets(tickets, "Enhancement")]>>
            ELSE <<>>)

\* Mutant of TicketLine: the link comes before the category and the summary.
TicketLineLinkFirst(t) ==
    "[" \o t.identifier \o "](" \o t.url \o ") - [" \o t.category \o "] "
        \o t.summary \o "\n"

\* one line of the note, lines 273-274
TicketLine(t) ==
    "[" \o t.category \o "] " \o t.summary \o " - [" \o t.identifier
        \o "](" \o t.url \o ")\n"

RECURSIVE TicketLines(_)
TicketLines(ts) ==
    IF ts = <<>> THEN "" ELSE TicketLine(Head(ts)) \o TicketLines(Tail(ts))

RECURSIVE RenderBlocks(_)
RenderBlocks(blocks) ==
    IF blocks = <<>> THEN ""
    ELSE "*" \o Head(blocks).header \o "*:\n" \o TicketLines(Head(blocks).tickets)
             \o "\n" \o RenderBlocks(Tail(blocks))

formatReleaseNote(tickets) == RenderBlocks(NoteBlocks(tickets))

(***************************************************************************)
(* Control flow shared by the continuations.                               *)
(***************************************************************************)
\* The for loop of summariseTickets entered at offset off with the
\* accumulator acc: either the map callbacks of the next chunk are started
\* and Promise.all is awaited, or the loop is over, summariseTickets returns
\* and generateReleaseNote formats and prints the note.
LoopFrom(tickets, off, acc) ==
    /\ i' = off
    /\ summarisedTickets' = acc
    /\ IF off < Len(tickets)
       THEN /\ pc' = "lookups"
            /\ ticketBatch' = [k \in 1..Len(Chunk(tickets, off)) |-> Pending]
            /\ releaseNote' = releaseNote
            /\ error' = error
       ELSE IF FormatThrows(acc)
       THEN /\ pc' = "aborted"
            /\ ticketBatch' = ticketBatch
            /\ releaseNote' = releaseNote
            /\ error' = PushError
       ELSE /\ pc' = "done"
            /\ ticketBatch' = ticketBatch
            /\ releaseNote' = [produced |-> TRUE,
                               text     |-> formatReleaseNote(acc),
                               blocks   |-> NoteBlocks(acc)]
            /\ error' = error

\* Mutant of Throw: the loop of summariseTickets catches the error of a
\* chunk and goes on with the next chunk.
ThrowSwallowed(err) == LoopFrom(allTickets, NextOffset(i), summarisedTickets)

\* A throw inside summariseTickets: nothing catches it, generateReleaseNote
\* rejects and the run ends.
Throw(err) ==
    /\ pc' = "aborted"
    /\ error' = err
    /\ UNCHANGED <<i, ticketBatch, summarisedTickets, releaseNote>>

NoResponseError == [kind |-> "error", code |-> NoCode, message |-> NoResponseMessage]

LookupError == [kind |-> "lookup", code |-> NoCode, message |-> ""]

ApiError(code) == [kind |-> "api", code |-> code, message |-> ""]

(***************************************************************************)
(* Initial state: generateReleaseNote has called getAllProjects.           *)
(***************************************************************************)
Init ==
    /\ pc = "projects"
    /\ tracker \in Trackers
    /\ projects = <<>>
    /\ fetchIdx = 0
    /\ colTickets = <<>>
    /\ allTickets = <<>>
    /\ i = 0
    /\ ticketBatch = <<>>
    /\ attempt = 0
    /\ returnedContent = <<>>
    /\ summarisedTickets = <<>>
    /\ releaseNote = NotProduced
    /\ error = NoError
    /\ apiCalls = 0
    /\ callsThisBatch = 0
    /\ retried = 0
    /\ inFlight = 0
    /\ waits = <<>>
    /\ lastError = NoError
    /\ fetchLog = <<>>
    /\ handed = <<>>
    /\ responseKinds = <<>>
    /\ listing = "pending"
    /\ limited = 0

(***************************************************************************)
(* getAllProjects.                                                         *)
(***************************************************************************)
ListProjectsOk ==
    /\ pc = "projects"
    /\ projects' = tracker.projects
    /\ listing' = "ok"
    /\ pc' = "fetch"
    /\ fetchIdx' = 1
    /\ UNCHANGED <<tracker, colTickets, allTickets, fetchLog, i, ticketBatch,
                   summarisedTickets, releaseNote, error, callVars, handed,
                   responseKinds>>

\* Mutant of ListProjectsFail: getAllProjects has no catch and the rejection
\* propagates out of generateReleaseNote.
ListProjectsFailThrows ==
    /\ pc = "projects"
    /\ Faults < MaxFaults
    /\ projects' = <<>>
    /\ listing' = "failed"
    /\ pc' = "aborted"
    /\ error' = LookupError
    /\ UNCHANGED <<tracker, fetchIdx, colTickets, allTickets, fetchLog, i, ticketBatch,
                   summarisedTickets, releaseNote, callVars, handed,
                   responseKinds>>

ListProjectsFail ==
    /\ pc = "projects"
    /\ Faults < MaxFaults
    /\ projects' = <<>>
    /\ listing' = "failed"
    /\ pc' = "fetch"
    /\ fetchIdx' = 1
    /\ UNCHANGED <<tracker, colTickets, allTickets, fetchLog, i, ticketBatch,
                   summarisedTickets, releaseNote, error, callVars, handed,
                   responseKinds>>

(***************************************************************************)
(* getAllTicketsForProject / getAllUnprojectedTickets, and the code of      *)
(* generateReleaseNote that follows the awaited result.                    *)
(***************************************************************************)
\* generateReleaseNote resumed with the tickets of query fetchIdx
Fetched(result, ok) ==
    LET q == FetchPlan(projects)[fetchIdx]
        got == Append(colTickets, result)
        groupDone == fetchIdx % Len(Columns) = 0
        all == IF groupDone THEN allTickets \o Flatten(got) ELSE allTickets
    IN  /\ fetchLog' = Append(fetchLog,
                              [project |-> q.project, column |-> q.column, ok |-> ok])
        /\ colTickets' = IF groupDone THEN <<>> ELSE got
        /\ allTickets' = all
        /\ fetchIdx' = fetchIdx + 1
        /\ IF fetchIdx = FetchCount(projects)
           THEN LoopFrom(all, 0, <<>>)
           ELSE UNCHANGED flowVars
        /\ UNCHANGED <<tracker, projects, listing, callVars, handed, responseKinds>>

\* Mutant of FetchFailed: the query error is not caught.
FetchAborts ==
    /\ Throw([kind |-> "fetch", code |-> NoCode, message |-> ""])
    /\ UNCHANGED <<tracker, fetchVars, callVars, handed, responseKinds>>

\* the catch block: the error is logged and tickets stays []
FetchFailed == Fetched(<<>>, FALSE)

FetchProjectOk ==
    /\ pc = "fetch"
    /\ FetchPlan(projects)[fetchIdx].project # NoProject
    /\ LET q == FetchPlan(projects)[fetchIdx]
       IN  Fetched(TrackerIssues(tracker, q.project, q.column), TRUE)

FetchProjectFail ==
    /\ pc = "fetch"
    /\ FetchPlan(projects)[fetchIdx].project # NoProject
    /\ Faults < MaxFaults
    /\ FetchFailed

FetchUnprojectedOk ==
    /\ pc = "fetch"
    /\ FetchPlan(projects)[fetchIdx].project = NoProject
    /\ LET q == FetchPlan(projects)[fetchIdx]
       IN  Fetched(TrackerIssues(tracker, NoProject, q.column), TRUE)

FetchUnprojectedFail ==
    /\ pc = "fetch"
    /\ FetchPlan(projects)[fetchIdx].project = NoProject
    /\ Faults < MaxFaults
    /\ FetchFailed

(***************************************************************************)
(* summariseTickets: the map callbacks of one chunk and Promise.all.       *)
(***************************************************************************)
\* the callback of the k-th ticket of the chunk has returned its record
Completed(k) == RecordOf(Chunk(allTickets, i)[k]) \in Range(ticketBatch)

InWindow(k) == \A j \in 1..(k - 1) : ~Completed(j) => k <= j + LookupWindow

ResolveRecord(k) ==
    /\ pc = "lookups"
    /\ ~Completed(k)
    /\ InWindow(k)
    /\ ticketBatch' = [ticketBatch EXCEPT
                          ![PromiseAllSlot(k, ticketBatch)] = RecordOf(Chunk(allTickets, i)[k])]
    /\ UNCHANGED <<pc, i, summarisedTickets, releaseNote, error, tracker,
                   fetchVars, callVars, handed, responseKinds>>

\* Mutant of LookupFails: the rejection is caught inside the map callback
\* and the loop goes on with the next chunk.
LookupFailsSkipsChunk(k) ==
    /\ pc = "lookups"
    /\ ~Completed(k)
    /\ Faults < MaxFaults
    /\ ThrowSwallowed(LookupError)
    /\ UNCHANGED <<tracker, fetchVars, callVars, handed, responseKinds>>

\* awaiting the assignee, the labels or the project of the k-th ticket rejects
LookupFails(k) ==
    /\ pc = "lookups"
    /\ ~Completed(k)
    /\ Faults < MaxFaults
    /\ Throw(LookupError)
    /\ UNCHANGED <<tracker, fetchVars, callVars, handed, responseKinds>>

\* Mutant of StartSummarise: the promise of summarise is not awaited; the
\* loop goes on with the next chunk while the request is in flight.
StartSummariseNoAwait ==
    /\ pc = "lookups"
    /\ Pending \notin Range(ticketBatch)
    /\ handed' = Append(handed, ticketBatch)
    /\ apiCalls' = apiCalls + 1
    /\ inFlight' = inFlight + 1
    /\ LoopFrom(allTickets, NextOffset(i), summarisedTickets)
    /\ UNCHANGED <<tracker, fetchVars, attempt, returnedContent, callsThisBatch,
                   retried, waits, lastError, limited, responseKinds>>

\* Promise.all resolved: summarise is called and submits the first request
StartSummarise ==
    /\ pc = "lookups"
    /\ Pending \notin Range(ticketBatch)
    /\ handed' = Append(handed, ticketBatch)
    /\ attempt' = 0
    /\ returnedContent' = <<>>
    /\ waits' = <<>>
    /\ lastError' = NoError
    /\ callsThisBatch' = 1
    /\ apiCalls' = apiCalls + 1
    /\ inFlight' = inFlight + 1
    /\ pc' = "call"
    /\ UNCHANGED <<i, ticketBatch, summarisedTickets, releaseNote, error, tracker,
                   fetchVars, retried, responseKinds, limited>>

(***************************************************************************)
(* summarise: the retry loop.                                              *)
(***************************************************************************)
\* the request resolves: break, then the code after the loop, then the
\* rest of the loop body of summariseTickets
ApiResponds(kind) ==
    /\ pc = "call"
    /\ kind # "array" => Faults < MaxFaults
    /\ LET content == Completion(kind, handed[Len(handed)], Len(handed))
           res == SummariseTail(content)
       IN  /\ returnedContent' = content
           /\ IF res.throws
              THEN Throw(NoResponseError)
              ELSE LoopFrom(allTickets, NextOffset(i), summarisedTickets \o res.value)
    /\ inFlight' = inFlight - 1
    /\ lastError' = NoError
    /\ responseKinds' = Append(responseKinds, kind)
    /\ UNCHANGED <<tracker, fetchVars, attempt, apiCalls, callsThisBatch, retried,
                   waits, handed, limited>>

\* the request rejects: the catch block
ApiFails(code) ==
    /\ pc = "call"
    /\ (ShouldRetry(ApiError(code)) /\ waits = <<>>) => Faults < MaxFaults
    /\ inFlight' = inFlight - 1
    /\ lastError' = ApiError(code)
    /\ IF ShouldRetry(ApiError(code))
       THEN /\ waits' = Append(waits, WaitTime(attempt))
            /\ retried' = retried + 1
            /\ limited' = IF waits = <<>> THEN limited + 1 ELSE limited
            /\ pc' = "backoff"
            /\ UNCHANGED <<i, ticketBatch, summarisedTickets, releaseNote, error>>
       ELSE /\ Throw(ApiError(code))
            /\ UNCHANGED <<waits, retried, limited>>
    /\ UNCHANGED <<tracker, fetchVars, attempt, returnedContent, apiCalls,
                   callsThisBatch, handed, responseKinds>>

\* the backoff timer fires: attempt++, then the loop condition
BackoffElapses ==
    /\ pc = "backoff"
    /\ attempt' = attempt + 1
    /\ IF attempt + 1 < maxRetries
       THEN /\ apiCalls' = apiCalls + 1
            /\ callsThisBatch' = callsThisBatch + 1
            /\ inFlight' = inFlight + 1
            /\ pc' = "call"
            /\ UNCHANGED <<i, ticketBatch, summarisedTickets, releaseNote, error>>
       ELSE /\ UNCHANGED <<apiCalls, callsThisBatch, inFlight>>
            /\ LET res == SummariseTail(returnedContent)
               IN  IF res.throws
                   THEN Throw(NoResponseError)
                   ELSE LoopFrom(allTickets, NextOffset(i),
                                 summarisedTickets \o res.value)
    /\ UNCHANGED <<tracker, fetchVars, returnedContent, retried, waits, lastError,
                   handed, responseKinds, limited>>

Next ==
    \/ ListProjectsOk
    \/ ListProjectsFail
    \/ FetchProjectOk
    \/ FetchProjectFail
    \/ FetchUnprojectedOk
    \/ FetchUnprojectedFail
    \/ \E k \in DOMAIN ticketBatch : ResolveRecord(k)
    \/ \E k \in DOMAIN ticketBatch : LookupFails(k)
    \/ StartSummarise
    \/ \E kind \in ResponseKinds : ApiResponds(kind)
    \/ \E code \in ErrorCodes : ApiFails(code)
    \/ BackoffElapses

Spec == Init /\ [][Next]_vars

(***************************************************************************)
(* formatReleaseNote on its own: the function applied to every sequence of *)
(* at most MaxNoteLen summarised tickets drawn from NoteTickets.           *)
(***************************************************************************)
NoteTicket(project, category, summary, identifier) ==
    [identifier |-> identifier,
     url        |-> "https://x/" \o identifier,
     summary    |-> summary,
     category   |-> category,
     project    |-> project,
     batch      |-> 1]

NoteTickets ==
    { NoteTicket("API", "DB", "Update DB", "E-1"),
      NoteTicket("API", "CI", "Speed up CI", "E-2"),
      NoteTicket("Enhancement", "UI", "Polish UI", "E-3"),
      NoteTicket("2024", "Plan", "Plan 2024", "E-4"),
      NoteTicket("7", "Ops", "Rotate keys", "E-5"),
      NoteTicket("constructor", "Core", "Refactor", "E-6") }

RECURSIVE SeqsUpTo(_, _)
SeqsUpTo(S, n) ==
    IF n = 0 THEN {<<>>}
    ELSE LET shorter == SeqsUpTo(S, n - 1)
         IN  shorter \cup { Append(q, x) : q \in shorter, x \in S }

FormatInit ==
    /\ pc = "format"
    /\ summarisedTickets \in SeqsUpTo(NoteTickets, MaxNoteLen)
    /\ tracker = [projects |-> <<>>, perFetch |-> 0]
    /\ projects = <<>>
    /\ fetchIdx = 0
    /\ colTickets = <<>>
    /\ allTickets = <<>>
    /\ i = 0
    /\ ticketBatch = <<>>
    /\ attempt = 0
    /\ returnedContent = <<>>
    /\ releaseNote = NotProduced
    /\ error = NoError
    /\ apiCalls = 0
    /\ callsThisBatch = 0
    /\ retried = 0
    /\ inFlight = 0
    /\ waits = <<>>
    /\ lastError = NoError
    /\ fetchLog = <<>>
    /\ handed = <<>>
    /\ responseKinds = <<>>
    /\ listing = "pending"
    /\ limited = 0

\* generateReleaseNote, lines 318-321: formatReleaseNote(summarisedTickets)
FormatNote ==
    /\ pc = "format"
    /\ LoopFrom(allTickets, i, summarisedTickets)
    /\ UNCHANGED <<tracker, fetchVars, callVars, handed, responseKinds>>

FormatSpec == FormatInit /\ [][FormatNote]_vars

(***************************************************************************)
(* Properties.                                                             *)
(***************************************************************************)
CeilDiv(n, b) == (n + b - 1) \div b

\* a step in which the completion request in flight rejects
FailureStep == pc = "call" /\ inFlight' < inFlight /\ lastError'.kind = "api"

\* a step in which the completion request in flight resolves
ResponseStep == pc = "call" /\ Len(responseKinds') = Len(responseKinds) + 1

BackoffSchedule == <<1000, 2000, 4000, 8000, 16000>>

\* C1 (as stated): when summariseTickets has processed a list of n tickets,
\* the number of completion-API invocations made equals ceil(n / BATCH_SIZE).
C1_CallsEqualCeil ==
    pc = "done" => apiCalls = CeilDiv(Len(allTickets), BATCH_SIZE)

\* C1 (amended): in a run that completes, summarise is called once per
\* batch, ceil(n / BATCH_SIZE) times, and the number of completion-API
\* invocations is that number plus the number of retried errors.
C1_CallsPerBatchPlusRetries ==
    pc = "done" =>
        /\ Len(handed) = CeilDiv(Len(allTickets), BATCH_SIZE)
        /\ apiCalls = CeilDiv(Len(allTickets), BATCH_SIZE) + retried

C1_Witness ==
    /\ pc = "done"
    /\ retried > 0
    /\ Len(allTickets) > BATCH_SIZE
    /\ Len(allTickets) % BATCH_SIZE # 0

\* C2: the backoff waits of one summarise call are 1, 2, 4, 8, 16 seconds in
\* this order, each request after the first follows one wait, never more
\* than maxRetries requests are made, and after the fifth failure the call
\* ends with the "Failed to get a response" error.
C2_BackoffSchedule ==
    /\ Len(waits) <= maxRetries
    /\ waits = SubSeq(BackoffSchedule, 1, Len(waits))
    /\ callsThisBatch <= maxRetries
    /\ pc = "call" => callsThisBatch = Len(waits) + 1
    /\ pc = "backoff" => callsThisBatch = Len(waits)
    /\ (Len(waits) = maxRetries /\ pc # "backoff") =>
            /\ pc = "aborted"
            /\ error = NoResponseError
            /\ callsThisBatch = maxRetries

C2_Witness ==
    /\ pc = "aborted"
    /\ error.message = NoResponseMessage
    /\ waits = BackoffSchedule
    /\ callsThisBatch = 5
    /\ lastError.code = "rate_limit"

\* C3: when the completion request fails with an error that is not a
\* rate-limit or quota error, the run is rejected with that error in the
\* same step, without a backoff wait, and no completion request follows.
C3_NonRecoverablePropagates ==
    /\ [][(FailureStep /\ lastError'.code \notin {"insufficient_quota", "rate_limit"})
            => /\ pc' = "aborted"
               /\ error' = lastError'
               /\ waits' = waits
               /\ apiCalls' = apiCalls
               /\ inFlight' = 0]_vars
    /\ [][pc = "aborted" => (apiCalls' = apiCalls /\ waits' = waits /\ pc' = pc)]_vars

C3_Witness ==
    /\ pc = "aborted"
    /\ error.kind = "api"
    /\ error.code = "invalid_api_key"
    /\ waits = <<>>
    /\ callsThisBatch = 1

\* C4 (as stated): a failed completion request is answered by a backoff
\* wait exactly when the error carries a code.
C4_RetryIffHasCode ==
    [][FailureStep => ((lastError'.code # NoCode) <=> (pc' = "backoff"))]_vars

\* C4 (amended): a failed completion request is answered by a backoff wait
\* exactly when the error's code is insufficient_quota or rate_limit; the
\* wait is followed by another request while fewer than maxRetries
\* requests have failed, and by the terminal error otherwise.
C4_RetryIffRetryCode ==
    /\ [][FailureStep =>
            /\ (lastError'.code \in {"insufficient_quota", "rate_limit"})
                   <=> (pc' = "backoff")
            /\ pc' = "backoff" => Len(waits') = Len(waits) + 1]_vars
    /\ [][pc = "backoff" =>
            IF attempt + 1 < 5
            THEN pc' = "call" /\ apiCalls' = apiCalls + 1
            ELSE pc' = "aborted" /\ apiCalls' = apiCalls]_vars

C4_Witness ==
    /\ pc = "call"
    /\ lastError.code = "insufficient_quota"
    /\ callsThisBatch = 2

\* the summaries batch b contributes, from the completion it ended with
BatchResult(b) ==
    LET parsed == JSONParse(Completion(responseKinds[b], handed[b], b))
    IN  IF ~parsed.ok THEN <<>>
        ELSE IF parsed.isArray THEN parsed.value ELSE <<parsed.value>>

\* C5 (as stated): whenever the completion is text that is not valid JSON,
\* the batch adds nothing to the summaries and the run is not aborted.
C5_AnyUnparsableYieldsEmpty ==
    [][(ResponseStep /\ ~JSONParse(returnedContent').ok)
            => (pc' # "aborted" /\ summarisedTickets' = summarisedTickets)]_vars

\* C5 (amended): whenever the completion is non-empty text that is not valid
\* JSON, the batch adds nothing to the summaries and the loop goes on with
\* the next chunk; when the run completes, the summaries are the
\* concatenation of the results of the batches whose completion parsed.
C5_UnparsableBatchSkipped ==
    /\ [][(ResponseStep /\ returnedContent' # <<>> /\ ~JSONParse(returnedContent').ok)
            => /\ pc' \in {"lookups", "done"}
               /\ summarisedTickets' = summarisedTickets
               /\ i' = i + BATCH_SIZE]_vars
    /\ [](pc = "done" =>
            summarisedTickets = Flatten([b \in DOMAIN handed |-> BatchResult(b)]))

C5_Witness ==
    /\ pc = "done"
    /\ \E b \in DOMAIN responseKinds : responseKinds[b] = "truncated"
    /\ Len(summarisedTickets) > 0

FetchedTickets ==
    Flatten([k \in DOMAIN fetchLog |->
                IF fetchLog[k].ok
                THEN TrackerIssues(tracker, fetchLog[k].project, fetchLog[k].column)
                ELSE <<>>])

\* C7: a failed issue query contributes no ticket and does not end the run:
\* the queries are made for every project/column combination in order
\* whatever failed before, and the tickets passed to summariseTickets are
\* those of the successful queries.
C7_FetchFailureContinues ==
    /\ \A k \in DOMAIN fetchLog :
          /\ fetchLog[k].project = FetchPlan(projects)[k].project
          /\ fetchLog[k].column = FetchPlan(projects)[k].column
    /\ pc = "fetch" => Len(fetchLog) = fetchIdx - 1
    /\ pc \notin {"projects", "fetch"} =>
          /\ Len(fetchLog) = 5 * (Len(projects) + 1)
          /\ allTickets = FetchedTickets
    /\ pc = "done" =>
          Flatten(handed) = [k \in DOMAIN allTickets |-> RecordOf(allTickets[k])]

C7_Witness ==
    /\ pc = "done"
    /\ \E k \in DOMAIN fetchLog :
          /\ ~fetchLog[k].ok
          /\ \E m \in DOMAIN fetchLog : m > k /\ fetchLog[m].ok
    /\ Len(summarisedTickets) = Len(allTickets)
    /\ Len(allTickets) > 0

\* C8: at most one completion request is in flight; record building for a
\* chunk starts only when the request of every earlier chunk, its retries
\* and backoff waits included, is over.
C8_OneCallAtATime ==
    /\ inFlight \in {0, 1}
    /\ inFlight = 1 <=> pc = "call"
    /\ pc \in {"lookups", "done"} => Len(responseKinds) = Len(handed)
    /\ pc \in {"call", "backoff"} => Len(responseKinds) + 1 = Len(handed)

C8_Witness ==
    /\ pc = "lookups"
    /\ Len(handed) >= 1
    /\ retried > 0
    /\ \E k \in DOMAIN ticketBatch : ticketBatch[k] # Pending

\* C9: the record lists passed to summarise are the consecutive chunks of
\* at most BATCH_SIZE tickets of the input, in input order, every one but
\* the last of BATCH_SIZE tickets; together they cover the input exactly
\* once; and the slots of a chunk hold the records in ticket order whatever
\* the order the lookups complete in.
C9_ChunksCoverInOrder ==
    /\ \A b \in DOMAIN handed :
          /\ Len(handed[b]) \in 1..15
          /\ b < Len(handed) => Len(handed[b]) = 15
          /\ handed[b] = [k \in 1..Len(handed[b]) |->
                             RecordOf(allTickets[(b - 1) * 15 + k])]
    /\ pc = "lookups" =>
          /\ Len(ticketBatch) = Min(15, Len(allTickets) - i)
          /\ i = 15 * Len(handed)
          /\ \A k \in DOMAIN ticketBatch :
                ticketBatch[k] \in {Pending, RecordOf(allTickets[i + k])}
    /\ pc = "done" =>
          Flatten(handed) = [k \in DOMAIN allTickets |-> RecordOf(allTickets[k])]

C9_Witness ==
    /\ pc = "lookups"
    /\ Len(handed) >= 1
    /\ Len(ticketBatch) < BATCH_SIZE
    /\ Len(ticketBatch) >= 2
    /\ ticketBatch[1] = Pending
    /\ ticketBatch[2] # Pending

\* C10: in the release note every block holds tickets of one project only,
\* and within a block a ticket of an earlier batch never comes after a
\* ticket of a later batch.
C10_BatchOrderWithinProject ==
    pc = "done" =>
        /\ releaseNote.produced
        /\ releaseNote.text = RenderBlocks(releaseNote.blocks)
        /\ \A n \in DOMAIN releaseNote.blocks :
              LET ts == releaseNote.blocks[n].tickets
              IN  /\ \A p, q \in DOMAIN ts : ts[p].project = ts[q].project
                  /\ \A p, q \in DOMAIN ts : p < q => ts[p].batch <= ts[q].batch
        /\ \A k \in DOMAIN summarisedTickets :
              \E n \in DOMAIN releaseNote.blocks :
                  summarisedTickets[k] \in Range(releaseNote.blocks[n].tickets)

C10_Witness ==
    /\ pc = "done"
    /\ \E n \in DOMAIN releaseNote.blocks :
          LET ts == releaseNote.blocks[n].tickets
          IN  \E p, q \in DOMAIN ts : ts[p].batch < ts[q].batch

(***************************************************************************)
(* Properties of formatReleaseNote (checked under FormatSpec).             *)
(***************************************************************************)
\* the project names of a ticket sequence, in input order
ProjectsOf(tickets) == [k \in DOMAIN tickets |-> tickets[k].project]

\* position of the first element of names that equals name (0 if none)
FirstPos(names, name) ==
    IF \E k \in DOMAIN names : names[k] = name
    THEN CHOOSE k \in DOMAIN names :
            names[k] = name /\ \A j \in 1..(k - 1) : names[j] # name
    ELSE 0

FirstTicketOf(name) == FirstPos(ProjectsOf(summarisedTickets), name)

FirstBlockOf(name) ==
    FirstPos([k \in DOMAIN releaseNote.blocks |-> releaseNote.blocks[k].header], name)

\* C11: formatReleaseNote renders the groups in first-seen project order: for
\* every input and every pair of distinct project names, the group whose
\* first ticket occurs earlier in the input is rendered earlier in the note.
C11_FirstSeenOrder ==
    pc = "done" =>
        \A a, b \in Range(ProjectsOf(summarisedTickets)) :
            (a # b /\ FirstTicketOf(a) < FirstTicketOf(b))
                => (FirstBlockOf(a) > 0 /\ FirstBlockOf(a) < FirstBlockOf(b))

\* number of positions of seq that hold x
Occurrences(seq, x) == Cardinality({k \in DOMAIN seq : seq[k] = x})

\* the tickets of all blocks of the note, in rendering order
RenderedTickets == Flatten([k \in DOMAIN releaseNote.blocks |-> releaseNote.blocks[k].tickets])

HasEnhancementGroup == \E k \in DOMAIN summarisedTickets : summarisedTickets[k].project = "Enhancement"

\* C12: when the grouping pass produced a group named "Enhancement", the note
\* holds that group under the header Enhancement and once more under the
\* header Enhancements, which is the last block, after all other groups; the
\* tickets of the other groups are rendered once. Without such a group there
\* is no Enhancements block and every ticket is rendered exactly once.
C12_EnhancementRenderedTwice ==
    pc = "done" =>
        LET blocks == releaseNote.blocks
            group  == SelectSeq(summarisedTickets, LAMBDA t : t.project = "Enhancement")
            times(t) == IF t.project = "Enhancement" THEN 2 ELSE 1
        IN  /\ \A k \in DOMAIN summarisedTickets :
                   Occurrences(RenderedTickets, summarisedTickets[k])
                       = times(summarisedTickets[k])
                            * Occurrences(summarisedTickets, summarisedTickets[k])
            /\ Len(RenderedTickets) = Len(summarisedTickets) + Len(group)
            /\ IF HasEnhancementGroup
               THEN /\ blocks[Len(blocks)] = [header |-> "Enhancements", tickets |-> group]
                    /\ \E k \in 1..(Len(blocks) - 1) :
                           blocks[k] = [header |-> "Enhancement", tickets |-> group]
                    /\ \A k \in 1..(Len(blocks) - 1) : blocks[k].header # "Enhancements"
                    /\ Cardinality({k \in DOMAIN blocks : blocks[k].header = "Enhancement"}) = 1
               ELSE \A k \in DOMAIN blocks :
                        blocks[k].header \notin {"Enhancement", "Enhancements"}
            /\ releaseNote.text = RenderBlocks(blocks)

\* an Enhancement ticket came first and a ticket of another project after it
C12_Witness ==
    /\ pc = "done"
    /\ Len(summarisedTickets) >= 2
    /\ summarisedTickets[1].project = "Enhancement"
    /\ \E k \in DOMAIN summarisedTickets : summarisedTickets[k].project = "API"
    /\ releaseNote.blocks[Len(releaseNote.blocks)].header = "Enhancements"

\* the tickets a block headed by header has to list, in input order
GroupOfHeader(header) ==
    SelectSeq(summarisedTickets,
              LAMBDA t : t.project = (IF header = "Enhancements" THEN "Enhancement"
                                      ELSE header))

RECURSIVE ExpectedLines(_)
ExpectedLines(ts) ==
    IF ts = <<>> THEN ""
    ELSE "[" \o Head(ts).category \o "] " \o Head(ts).summary \o " - ["
             \o Head(ts).identifier \o "](" \o Head(ts).url \o ")\n"
             \o ExpectedLines(Tail(ts))

RECURSIVE ExpectedText(_)
ExpectedText(headers) ==
    IF headers = <<>> THEN ""
    ELSE "*" \o Head(headers) \o "*:\n" \o ExpectedLines(GroupOfHeader(Head(headers)))
             \o "\n" \o ExpectedText(Tail(headers))

ExampleTicket ==
    [project |-> "API", category |-> "DB", summary |-> "Update DB",
     identifier |-> "E-1", url |-> "https://x/E-1", batch |-> 1]

SecondTicket ==
    [project |-> "API", category |-> "CI", summary |-> "Speed up CI",
     identifier |-> "E-2", url |-> "https://x/E-2", batch |-> 1]

\* C13: the note is, group after group, the header line *<project>*:, one
\* line [<category>] <summary> - [<identifier>](<url>) per ticket of the
\* group in input order, and one blank line; the single ticket (API, DB,
\* Update DB, E-1, https://x/E-1) yields exactly
\* "*API*:\n[DB] Update DB - [E-1](https://x/E-1)\n\n".
C13_GroupRendering ==
    pc = "done" =>
        /\ releaseNote.text
              = ExpectedText([k \in DOMAIN releaseNote.blocks |-> releaseNote.blocks[k].header])
        /\ \A k \in DOMAIN releaseNote.blocks :
               releaseNote.blocks[k].tickets = GroupOfHeader(releaseNote.blocks[k].header)
        /\ summarisedTickets = <<ExampleTicket>>
               => releaseNote.text = "*API*:\n[DB] Update DB - [E-1](https://x/E-1)\n\n"
        /\ summarisedTickets = <<SecondTicket, ExampleTicket>>
               => releaseNote.text
                     = "*API*:\n[CI] Speed up CI - [E-2](https://x/E-2)\n[DB] Update DB - [E-1](https://x/E-1)\n\n"
        /\ summarisedTickets = <<>> => releaseNote.text = ""

\* the example of the claim has been formatted
C13_Witness ==
    /\ pc = "done"
    /\ summarisedTickets = <<ExampleTicket>>
    /\ releaseNote.produced
    /\ Len(releaseNote.blocks) = 1

\* the summaries that batch b contributed to the accumulated result
SummariesOfBatch(b) == SelectSeq(summarisedTickets, LAMBDA t : t.batch = b)

\* the object a completion of kind "object" consists of, for batch b
ObjectOf(b) == SummaryOf(handed[b][1], b)

\* C14: a completion whose text parses to a single JSON object makes
\* summarise return what it returns for the text of the one-element array
\* holding that object: the batch contributes exactly that one summary.
C14_ObjectAsOneElementArray ==
    \A b \in DOMAIN responseKinds :
        responseKinds[b] = "object" =>
            LET asArray == SummariseTail(ArrayText(<<ObjectOf(b)>>))
            IN  /\ ~asArray.throws
                /\ asArray.value = <<ObjectOf(b)>>
                /\ SummariesOfBatch(b) = asArray.value
                /\ (b = Len(responseKinds) /\ Len(handed) = b /\ pc # "call")
                      => /\ JSONParse(returnedContent).ok
                         /\ ~JSONParse(returnedContent).isArray
                         /\ returnedContent # ArrayText(<<ObjectOf(b)>>)
                         /\ SummariseTail(returnedContent) = asArray

\* a batch of several tickets was answered by a bare object and the run ended
C14_Witness ==
    /\ pc = "done"
    /\ \E b \in DOMAIN responseKinds :
          /\ responseKinds[b] = "object"
          /\ Len(handed[b]) >= 2
          /\ SummariesOfBatch(b) = <<ObjectOf(b)>>

\* C15: every summarised ticket that reaches formatReleaseNote carries the
\* identifier of some input ticket of the run, whatever the completion API
\* returned.
C15_IdentifiersMatchInput ==
    pc = "done" =>
        \A k \in DOMAIN summarisedTickets :
            \E j \in DOMAIN allTickets :
                summarisedTickets[k].identifier = allTickets[j].identifier

\* the order of the queries as generateReleaseNote writes them out
QueryOrder ==
    LET columns == <<"Done", "Staging", "In Review", "In Progress", "To Do">>
        owners  == projects \o <<NoProject>>
    IN  Flatten([p \in DOMAIN owners |->
                    [c \in DOMAIN columns |->
                        [project |-> owners[p], column |-> columns[c]]]])

\* what the first n queries returned, concatenated in query order
ResultsOfFirst(n) ==
    Flatten([k \in 1..n |->
                IF fetchLog[k].ok
                THEN TrackerIssues(tracker, fetchLog[k].project, fetchLog[k].column)
                ELSE <<>>])

DeterminedRecords(b) ==
    LET chunk == Chunk(FetchedTickets, (b - 1) * BATCH_SIZE)
    IN  [k \in DOMAIN chunk |-> RecordOf(chunk[k])]

DeterminedSummaries ==
    Flatten([b \in DOMAIN responseKinds |->
                SummariseTail(Completion(responseKinds[b], DeterminedRecords(b), b)).value])

EmptyContentReceived ==
    /\ responseKinds # <<>>
    /\ responseKinds[Len(responseKinds)] = "empty"

\* C18: a completion request that resolves with empty or missing content
\* ends the retry loop and makes summarise throw the terminal error: no
\* further request is made for the batch, nothing is parsed or returned for
\* it, and the run aborts without a release note.
C18_EmptyContentIsTerminal ==
    /\ \A b \in 1..(Len(responseKinds) - 1) : responseKinds[b] # "empty"
    /\ EmptyContentReceived =>
          /\ pc = "aborted"
          /\ error = NoResponseError
          /\ error.message = "Failed to get a response from OpenAI API"
          /\ releaseNote = NotProduced
          /\ returnedContent = <<>>
          /\ SummariseTail(returnedContent).throws
          /\ inFlight = 0
          /\ callsThisBatch = Len(waits) + 1
          /\ Len(handed) = Len(responseKinds)
          /\ i = BATCH_SIZE * (Len(handed) - 1)
          /\ \A k \in DOMAIN summarisedTickets :
                summarisedTickets[k].batch < Len(responseKinds)

\* the second batch was answered with empty content after a first batch
\* had been summarised
C18_Witness ==
    /\ EmptyContentReceived
    /\ Len(responseKinds) >= 2
    /\ summarisedTickets # <<>>
    /\ error = NoResponseError
    /\ callsThisBatch = 1

\* a step that ends the record building of a chunk without calling summarise
RecordBuildingFails ==
    /\ pc = "lookups"
    /\ ~(pc' = "lookups" /\ i' = i)
    /\ pc' # "call"

\* C19: a lookup that fails while the records of a chunk are built is not
\* recovered: the run aborts with that failure, summarise is called neither
\* for that chunk nor for a later one, and no release note is produced.
C19_LookupFailureAborts ==
    /\ [][RecordBuildingFails =>
             /\ pc' = "aborted"
             /\ error' = LookupError
             /\ handed' = handed
             /\ apiCalls' = apiCalls
             /\ summarisedTickets' = summarisedTickets
             /\ releaseNote' = NotProduced]_vars
    /\ [](error.kind = "lookup" =>
             /\ pc = "aborted"
             /\ releaseNote = NotProduced
             /\ inFlight = 0
             /\ Pending \in Range(ticketBatch)
             /\ Len(handed) = i \div BATCH_SIZE
             /\ Len(responseKinds) = Len(handed))
    /\ [][error.kind = "lookup" => UNCHANGED vars]_vars

\* a lookup failed in the second chunk of three, after another lookup of
\* that chunk had succeeded
C19_Witness ==
    /\ error = LookupError
    /\ pc = "aborted"
    /\ Len(handed) = 1
    /\ i + BATCH_SIZE < Len(allTickets)
    /\ \E k \in DOMAIN ticketBatch : ticketBatch[k] # Pending

\* the tickets without a project, column by column
UnprojectedTickets ==
    Flatten([c \in DOMAIN Columns |->
                IF c \in DOMAIN fetchLog /\ fetchLog[c].ok
                THEN TrackerIssues(tracker, NoProject, Columns[c])
                ELSE <<>>])

\* C20: when listing the active projects fails, the list of projects is
\* empty and the run goes on: no query for a project is made, exactly the
\* five no-project queries are, and their tickets are summarised and
\* formatted as in any other run.
C20_ListingFailureContinues ==
    listing = "failed" =>
        /\ projects = <<>>
        /\ pc # "projects"
        /\ Len(fetchLog) <= 5
        /\ \A k \in DOMAIN fetchLog :
              /\ fetchLog[k].project = NoProject
              /\ fetchLog[k].column = Columns[k]
        /\ pc = "fetch" => error = NoError /\ Len(fetchLog) = fetchIdx - 1
        /\ pc # "fetch" =>
              /\ Len(fetchLog) = 5
              /\ allTickets = UnprojectedTickets
        /\ pc = "aborted" => error.kind \in {"api", "error", "lookup"} /\ i < Len(allTickets)
        /\ pc = "done" =>
              /\ Len(handed) = CeilDiv(Len(allTickets), BATCH_SIZE)
              /\ summarisedTickets = Flatten([b \in DOMAIN handed |-> BatchResult(b)])
              /\ releaseNote.produced
              /\ releaseNote.text = formatReleaseNote(summarisedTickets)

\* the tracker has a project, the listing failed, and the note of the
\* no-project tickets has been produced
C20_Witness ==
    /\ listing = "failed"
    /\ tracker.projects # <<>>
    /\ pc = "done"
    /\ Len(summarisedTickets) = Len(allTickets)
    /\ Len(allTickets) > BATCH_SIZE
    /\ releaseNote.text # ""

====
